---- MODULE Spec2Model ----
(***************************************************************************)
(* Model of the nutritioner-bot backend: the meal repository               *)
(* (lib/database/session.py), the HTTP handlers of lib/server.py and of    *)
(* server.py, and the weekly aggregation calculate_past_data.              *)
(*                                                                         *)
(* Dates are day numbers.  A Python exception is the name of the session   *)
(* step (or provider) that raised it; "" means that nothing was raised.    *)
(* A step is one call that runs to completion: a call of a repository      *)
(* method, a call of calculate_past_data, or one HTTP request served by a  *)
(* handler class (that of lib/server.py, or that of server.py).            *)
(***************************************************************************)
EXTENDS Integers, Sequences, FiniteSets, TLC

VARIABLES
    today,      \* the day datetime.now() falls on
    db,         \* the committed rows of table "meal", in commit order
    sessions,   \* every session the session factory has handed out, as left by its call
    ops,        \* number of operations performed so far
    last        \* what the most recent operation was given and what it produced

vars == <<today, db, sessions, ops, last>>

-----------------------------------------------------------------------------
(* Bounds of the model *)

\* operations in a run of the repository
MaxOps == 3
\* requests in a run of the HTTP handlers
MaxRequests == 2
\* length of the meal list handed to the aggregator
MaxLen == 2
\* the day the run starts on; the days before it are the past
FirstDay == 8
\* the last day the clock reaches
MaxDay == 9

-----------------------------------------------------------------------------
(* config.py *)

OK == 200
NOT_FOUND == 404
BAD_REQUEST == 400
INTERNAL_SERVER_ERROR == 500
ERROR == "error"

-----------------------------------------------------------------------------
(* Python values *)

None == [type |-> "NoneType"]
PyDict(d) == [type |-> "dict", value |-> d]
PyList(s) == [type |-> "list", value |-> s]

\* a datetime (or date) object falling on day d
datetime(d) == [type |-> "datetime", day |-> d]
\* a JSON string: either the ISO text of day d, or text that is no date
IsoStr(d) == [type |-> "str", iso |-> TRUE, day |-> d]
Garbage == [type |-> "str", iso |-> FALSE, day |-> 0]

\* a path is the sequence of its pieces: "/api/v1/statsfoo" is
\* <<"/api/v1/stats", "foo">>; str.startswith is the prefix test
MealsPath == <<"/api/v1/meals">>
StatsPath == <<"/api/v1/stats">>
startswith(s, prefix) ==
    Len(prefix) <= Len(s) /\ SubSeq(s, 1, Len(prefix)) = prefix

-----------------------------------------------------------------------------
(* lib/database/models.py and lib/database/session.py *)

\* the session methods a fault can be injected in
Steps == {"acquire", "add", "commit", "query", "rollback", "close"}

MealData(user_id, description, calories, created_date) ==
    [user_id |-> user_id, description |-> description,
     calories |-> calories, created_date |-> created_date]

\* Meal(...): the primary key is still unset, its default is applied at flush
Meal(user_id, description, calories, created_date) ==
    [id |-> 0, user_id |-> user_id, description |-> description,
     calories |-> calories, created_date |-> created_date]

\* self.session(): a new session object, distinct from all handed out before
SessionLocal(log) ==
    [sid |-> Len(log) + 1, new |-> <<>>, rollbacks |-> 0, closes |-> 0]

\* the flush of a commit: each pending row gets a fresh primary key (uuid4)
Flush(store, new) ==
    store \o [i \in 1..Len(new) |-> [new[i] EXCEPT !.id = Len(store) + i]]

\* The day a stored created_date denotes to the storage engine; -1: none.
\* The column is a DateTime: a datetime is stored as it is, the ISO text of
\* a date is read as that date, other text is no date and matches no filter.
\* The row itself keeps the value it was committed with.
DayOf(created_date) ==
    IF created_date.type = "datetime" THEN created_date.day
    ELSE IF created_date.type = "str" /\ created_date.iso THEN created_date.day
    ELSE -1

\* faulty variant: a strict comparison, which leaves the cutoff day out
CreatedAfter(created_date, cutoff) ==
    DayOf(created_date) # -1 /\ DayOf(created_date) > cutoff

\* Meal.created_date >= one_week_ago.date()

CreatedOnOrAfter(created_date, cutoff) ==
    DayOf(created_date) # -1 /\ DayOf(created_date) >= cutoff

\* a row loaded through the DateTime column: created_date comes back a datetime
Load(row) ==
    IF DayOf(row.created_date) # -1
    THEN [row EXCEPT !.created_date = datetime(DayOf(row.created_date))]
    ELSE row

_insert_meal(store, session, meal_data, F) ==
    LET meal == Meal(meal_data.user_id, meal_data.description,
                     meal_data.calories, meal_data.created_date)
        added == [session EXCEPT !.new = Append(@, meal)]
    IN  IF "add" \in F
        THEN [exc |-> "add", ret |-> None, store |-> store, session |-> session]
        ELSE IF "commit" \in F
        THEN [exc |-> "commit", ret |-> None, store |-> store, session |-> added]
        ELSE [exc |-> "", ret |-> PyDict([status |-> "success"]),
              store |-> Flush(store, added.new),
              session |-> [added EXCEPT !.new = <<>>]]

\* faulty variant: the rows of every user are selected
_get_meals_for_last_week_any_user(store, session, user_id, now, F) ==
    LET rows == SelectSeq(store, LAMBDA m : CreatedOnOrAfter(m.created_date, now - 7))
    IN  IF "query" \in F
        THEN [exc |-> "query", ret |-> None, store |-> store, session |-> session]
        ELSE [exc |-> "", ret |-> PyList([i \in 1..Len(rows) |-> Load(rows[i])]),
              store |-> store, session |-> session]

_get_meals_for_last_week(store, session, user_id, now, F) ==
    LET one_week_ago == now - 7
        rows == SelectSeq(store, LAMBDA m :
                    m.user_id = user_id
                    /\ CreatedOnOrAfter(m.created_date, one_week_ago))
    IN  IF "query" \in F
        THEN [exc |-> "query", ret |-> None, store |-> store, session |-> session]
        ELSE [exc |-> "", ret |-> PyList([i \in 1..Len(rows) |-> Load(rows[i])]),
              store |-> store, session |-> session]

DatabaseError(err) ==
    PyDict([status |-> ERROR, error |-> "Database error", details |-> err])

\* finally: session.close(); an exception raised by close() replaces the
\* pending return value or exception
Finally(handled, log, F, raised) ==
    LET closed == [handled.session EXCEPT !.closes = @ + 1, !.new = <<>>]
    IN  [exc |-> IF "close" \in F THEN "close" ELSE handled.exc,
         ret |-> IF "close" \in F THEN None ELSE handled.ret,
         store |-> handled.store,
         log |-> Append(log, closed),
         sid |-> closed.sid,
         raised |-> raised \cup (IF "close" \in F THEN {"close"} ELSE {})]

\* the session factory itself raised: nothing was acquired
NoSession(store, log) ==
    [exc |-> "acquire", ret |-> None, store |-> store, log |-> log,
     sid |-> 0, raised |-> {"acquire"}]

\* faulty variant: close() only after the try block returned, no finally
insert_meal_noclose(store, log, user_id, description, calories, created_date, F) ==
    IF "acquire" \in F THEN NoSession(store, log)
    ELSE
    LET session == SessionLocal(log)
        meal_data == MealData(user_id, description, calories, created_date)
        body == _insert_meal(store, session, meal_data, F)
    IN  IF body.exc = ""
        THEN Finally(body, log, F, {})
        ELSE [exc |-> "", ret |-> DatabaseError(body.exc), store |-> store,
              log |-> Append(log, [body.session EXCEPT !.new = <<>>, !.rollbacks = @ + 1]),
              sid |-> session.sid, raised |-> {body.exc}]

insert_meal(store, log, user_id, description, calories, created_date, F) ==
    IF "acquire" \in F THEN NoSession(store, log)
    ELSE
    LET session == SessionLocal(log)
        meal_data == MealData(user_id, description, calories, created_date)
        body == _insert_meal(store, session, meal_data, F)
        rolled == [body.session EXCEPT !.rollbacks = @ + 1]
        handled ==
            IF body.exc = "" THEN body
            ELSE IF "rollback" \in F
            THEN [exc |-> "rollback", ret |-> None, store |-> body.store,
                  session |-> rolled]
            ELSE [exc |-> "", ret |-> DatabaseError(body.exc), store |-> body.store,
                  session |-> [rolled EXCEPT !.new = <<>>]]
        raised == (IF body.exc = "" THEN {} ELSE {body.exc})
                  \cup (IF body.exc # "" /\ "rollback" \in F THEN {"rollback"} ELSE {})
    IN  Finally(handled, log, F, raised)

get_meals_for_last_week(store, log, user_id, now, F) ==
    IF "acquire" \in F THEN NoSession(store, log)
    ELSE
    LET session == SessionLocal(log)
        body == _get_meals_for_last_week(store, session, user_id, now, F)
        handled ==
            IF body.exc = "" THEN body
            ELSE [exc |-> "", ret |-> DatabaseError(body.exc), store |-> body.store,
                  session |-> body.session]
        raised == IF body.exc = "" THEN {} ELSE {body.exc}
    IN  Finally(handled, log, F, raised)

-----------------------------------------------------------------------------
(* lib/server.py: calculate_past_data *)

NutritionInfo(calories) == [type |-> "NutritionInfo", calories |-> calories]

\* sum(meal.calories for meal in meals if meal.created_date.date() == target)
RECURSIVE SumCaloriesOn(_, _)
SumCaloriesOn(meals, target) ==
    IF meals = <<>> THEN 0
    ELSE (IF Head(meals).created_date.day = target THEN Head(meals).calories ELSE 0)
         + SumCaloriesOn(Tail(meals), target)

\* faulty variant: the days are counted from yesterday, range(1, 8)
calculate_past_data_from_yesterday(meals, now) ==
    LET past_data == [k \in 1..7 |-> NutritionInfo(SumCaloriesOn(meals, now - k))]
    IN  [exc |-> "",
         ret |-> [k \in 1..7 |->
                    IF past_data[k].calories # 0 THEN past_data[k] ELSE None]]

\* meal.created_date.date() exists on a datetime only; slot k holds day k - 1
\* of range(7); `num if num.calories else None` turns a zero sum into None
calculate_past_data(meals, now) ==
    IF \E i \in 1..Len(meals) : meals[i].created_date.type # "datetime"
    THEN [exc |-> "AttributeError", ret |-> None]
    ELSE
    LET past_data == [k \in 1..7 |-> NutritionInfo(SumCaloriesOn(meals, now - (k - 1)))]
    IN  [exc |-> "",
         ret |-> [k \in 1..7 |->
                    IF past_data[k].calories # 0 THEN past_data[k] ELSE None]]

-----------------------------------------------------------------------------
(* lib/server.py: the handlers.  A provider call is given by its outcome:   *)
(* [exc |-> "", ret |-> value], or [exc |-> message, ret |-> None] when it  *)
(* raises.  A handler yields the response it wrote (None when it wrote      *)
(* none), the exception that escaped it, and the external calls it made.    *)

Response(status, body) == [type |-> "response", status |-> status, body |-> body]

Has(d, key) == key \in DOMAIN d

\* dict.get(key, default)
Get(d, key, default) == IF key \in DOMAIN d THEN d[key] ELSE default

\* send_error_response: details are added only when truthy
send_error_response(status_code, error_message, details) ==
    IF details # ""
    THEN Response(status_code, PyDict([error |-> error_message, details |-> details]))
    ELSE Response(status_code, PyDict([error |-> error_message]))

Handled(resp, exc, calls, store, log) ==
    [resp |-> resp, exc |-> exc, calls |-> calls, store |-> store, log |-> log]

\* do_post; self.path is compared as a whole
do_post(store, log, path, meal_info, now, nutrition, F) ==
    IF path # MealsPath
    THEN Handled(Response(NOT_FOUND, None), "", <<>>, store, log)
    ELSE IF ~Has(meal_info, "user_id") \/ ~Has(meal_info, "description")
    THEN Handled(Response(BAD_REQUEST,
                 PyDict([error |-> "Invalid request, missing user_id or description"])),
                 "", <<>>, store, log)
    ELSE
    LET user_id == meal_info["user_id"]
        description == meal_info["description"]
        created_date == Get(meal_info, "created_date", datetime(now))
    IN  IF nutrition.exc # ""
        THEN Handled(Response(BAD_REQUEST,
                     PyDict([error |-> "Server did not recognize the request.",
                             details |-> nutrition.exc])),
                     "", <<"get_nutrition">>, store, log)
        ELSE
        LET r == insert_meal(store, log, user_id, description,
                             nutrition.ret.calories, created_date, F)
            calls == <<"get_nutrition", "insert_meal">>
        IN  IF r.exc # ""
            THEN Handled(None, r.exc, calls, r.store, r.log)
            ELSE IF r.ret.value.status = ERROR
            THEN Handled(Response(INTERNAL_SERVER_ERROR, r.ret), "", calls, r.store, r.log)
            ELSE Handled(Response(OK, PyDict([calories |-> nutrition.ret.calories])),
                         "", calls, r.store, r.log)

\* handle_stats_request; query is parse_qs(urlparse(self.path).query), and
\* `not user_id` holds of None (no such parameter) and of "".  The repository
\* is read as self.nutrition_repository: nutrition_handler_factory keeps it in
\* a variable of the enclosing function and sets no such attribute, so the
\* read raises AttributeError and the lines after it are never reached.
handle_stats_request(store, log, query) ==
    IF ~Has(query, "user_id") \/ query["user_id"] = ""
    THEN Handled(send_error_response(BAD_REQUEST, "Missing user_id parameter", ""),
                 "", <<>>, store, log)
    ELSE Handled(None, "AttributeError", <<>>, store, log)

\* do_get: every path that starts with /api/v1/stats is a stats request
do_get(store, log, path, query) ==
    IF startswith(path, StatsPath)
    THEN handle_stats_request(store, log, query)
    ELSE Handled(Response(NOT_FOUND, None), "", <<>>, store, log)

\* One HTTP request handed to the class built by nutrition_handler_factory:
\* http.server calls the method named do_ + command, the command taken from
\* the request line as it is written.  The class defines do_post and do_get,
\* so a request whose command is written post or get runs them; POST finds
\* no do_POST and is answered 501; GET and HEAD run the inherited do_GET and
\* do_HEAD, which serve the entry the path names in the served directory:
\* none is answered 404, a directory (the paths here end without a slash)
\* 301, a file 200, or 304 when the request is conditional and the file
\* unchanged.  HEAD writes no body.  An exception of the method leaves
\* handle_one_request.
handle_one_request(store, log, req, now, nutrition, F, entry, not_modified) ==
    LET body(text) == IF req.command = "HEAD" THEN "" ELSE text
        static(resp) == Handled(resp, "", <<>>, store, log)
    IN  IF req.command = "post"
        THEN do_post(store, log, req.path, req.body, now, nutrition, F)
                 @@ [method |-> "do_post"]
        ELSE IF req.command = "get"
        THEN do_get(store, log, req.path, req.query) @@ [method |-> "do_get"]
        ELSE IF req.command \notin {"GET", "HEAD"}
        THEN static(Response(501, "Unsupported method")) @@ [method |-> ""]
        ELSE (IF entry = "none"
              THEN static(Response(NOT_FOUND, body("File not found")))
              ELSE IF entry = "directory"
              THEN static(Response(301, ""))
              ELSE IF not_modified
              THEN static(Response(304, ""))
              ELSE static(Response(OK, body("file"))))
             @@ [method |-> IF req.command = "GET" THEN "do_GET" ELSE "do_HEAD"]

-----------------------------------------------------------------------------
(* server.py: do_POST, the handler that stores the meal through a session  *)
(* of its own                                                               *)

do_POST(store, log, path, info, now, nutrition, F) ==
    IF path # MealsPath
    THEN Handled(Response(NOT_FOUND, None), "", <<>>, store, log)
    ELSE IF ~Has(info, "user_id") \/ ~Has(info, "description")
    THEN Handled(Response(BAD_REQUEST,
                 PyDict([error |-> "Invalid request, missing user_id or description"])),
                 "", <<>>, store, log)
    ELSE IF nutrition.exc # ""
    THEN Handled(None, nutrition.exc, <<"get_nutrition">>, store, log)
    ELSE IF "acquire" \in F
    THEN Handled(None, "acquire", <<"get_nutrition">>, store, log)
    ELSE
    LET session == SessionLocal(log)
        meal_data == MealData(info["user_id"], info["description"],
                              nutrition.ret.calories, None)
        body == _insert_meal(store, session, meal_data, F)
        rolled == [body.session EXCEPT !.rollbacks = @ + 1]
        calls == <<"get_nutrition">>
        closed(sess) == Append(log, [sess EXCEPT !.closes = @ + 1, !.new = <<>>])
    IN  IF body.exc # "" /\ "rollback" \in F
        THEN Handled(None, IF "close" \in F THEN "close" ELSE "rollback",
                     calls, body.store, closed(rolled))
        ELSE IF body.exc # ""
        THEN Handled(Response(INTERNAL_SERVER_ERROR,
                         PyDict([error |-> "Database error", details |-> body.exc])),
                     IF "close" \in F THEN "close" ELSE "",
                     calls, body.store, closed(rolled))
        ELSE IF "close" \in F
        THEN Handled(None, "close", calls, body.store, closed(body.session))
        ELSE Handled(Response(OK, PyDict([calories |-> nutrition.ret.calories])),
                     "", calls, body.store, closed(body.session))

-----------------------------------------------------------------------------
(* The repository called directly, with faults injected in the session:   *)
(* F is the set of session steps that raise when they are reached.         *)

StoreUsers == {"u1", "u2"}
StoreDays == {FirstDay - 8, FirstDay - 7, FirstDay, FirstDay + 1}

Init ==
    /\ today = FirstDay
    /\ db = <<>>
    /\ sessions = <<>>
    /\ ops = 0
    /\ last = [op |-> "init"]

Tick ==
    /\ today < MaxDay
    /\ today' = today + 1
    /\ UNCHANGED <<db, sessions, ops, last>>

InsertMealCall ==
    /\ ops < MaxOps
    /\ \E user_id \in StoreUsers, day \in StoreDays, F \in SUBSET (Steps \ {"query"}) :
        LET r == insert_meal(db, sessions, user_id, "apple", 2, datetime(day), F)
        IN  /\ r.raised = F      \* each injected fault is one that fires
            /\ db' = r.store
            /\ sessions' = r.log
            /\ last' = [op |-> "insert_meal", user_id |-> user_id,
                        description |-> "apple", calories |-> 2,
                        created_date |-> datetime(day), now |-> today,
                        exc |-> r.exc, ret |-> r.ret, raised |-> r.raised,
                        sid |-> r.sid, before |-> db, nsessions |-> Len(sessions)]
    /\ ops' = ops + 1
    /\ UNCHANGED today

GetMealsCall ==
    /\ ops < MaxOps
    /\ \E user_id \in StoreUsers, F \in SUBSET {"acquire", "query", "close"} :
        LET r == get_meals_for_last_week(db, sessions, user_id, today, F)
        IN  /\ r.raised = F
            /\ db' = r.store
            /\ sessions' = r.log
            /\ last' = [op |-> "get_meals_for_last_week", user_id |-> user_id,
                        now |-> today,
                        exc |-> r.exc, ret |-> r.ret, raised |-> r.raised,
                        sid |-> r.sid, before |-> db, nsessions |-> Len(sessions)]
    /\ ops' = ops + 1
    /\ UNCHANGED today

StoreNext == InsertMealCall \/ GetMealsCall \/ Tick

SpecStore == Init /\ [][StoreNext]_vars

StoreOps == {"insert_meal", "get_meals_for_last_week"}

-----------------------------------------------------------------------------
(* Claims about the repository, checked under SpecStore *)

IsDatabaseError(ret) ==
    /\ ret.type = "dict"
    /\ ret.value.status = ERROR
    /\ ret.value.error = "Database error"
    /\ ret.value.details # ""

\* C1: whenever add() or commit() fails in insert_meal, the transaction is
\* rolled back, the persisted rows are those from before the call, and the
\* call returns a "Database error" result carrying a detail string.
C1_FailedInsertRollsBackAndReports ==
    (last.op = "insert_meal" /\ last.raised \cap {"add", "commit"} # {}) =>
        /\ sessions[last.sid].rollbacks = 1
        /\ "rollback" \notin last.raised
        /\ db = last.before
        /\ last.exc = ""
        /\ IsDatabaseError(last.ret)

\* C2: neither repository call lets an exception escape: whatever session
\* step fails, the call returns (a structured failure result) and does not raise.
C2_NoExceptionEscapes ==
    (last.op \in StoreOps) =>
        /\ last.exc = ""
        /\ (last.raised # {} => IsDatabaseError(last.ret))

\* C3: every repository call that obtained a session obtained a new one of
\* its own and called close() on it exactly once before returning, on the
\* success path and on every failure path; no session of a finished call is
\* left unclosed and no session belongs to two calls.
C3_OwnSessionClosedOnce ==
    /\ \A i \in 1..Len(sessions) : sessions[i].closes = 1 /\ sessions[i].sid = i
    /\ (last.op \in StoreOps) =>
          IF "acquire" \in last.raised
          THEN Len(sessions) = last.nsessions /\ last.sid = 0
          ELSE Len(sessions) = last.nsessions + 1 /\ last.sid = Len(sessions)

\* a failed insert (commit raised, rollback done) after an earlier call: both
\* sessions are there, each closed once
C3_Witness ==
    /\ last.op = "insert_meal"
    /\ "commit" \in last.raised
    /\ last.sid = 2
    /\ Len(sessions) = 2
    /\ sessions[2].rollbacks = 1
    /\ sessions[2].closes = 1

Matches(row, user_id, now) ==
    row.user_id = user_id /\ row.created_date.day >= now - 7

\* C8: a successful get_meals_for_last_week(user_id) returns exactly the
\* stored rows of that user dated on or after today - 7 days, each once: a
\* row dated exactly 7 days ago is returned, a row dated 8 days ago is not,
\* and no row of another user is.
C8_LastWeekOfThatUserOnly ==
    (last.op = "get_meals_for_last_week" /\ last.exc = "" /\ last.ret.type = "list") =>
        LET res == last.ret.value
        IN  /\ \A i \in 1..Len(db) :
                  Matches(db[i], last.user_id, last.now)
                      <=> (\E j \in 1..Len(res) : res[j] = db[i])
            /\ \A j \in 1..Len(res) : \E i \in 1..Len(db) : res[j] = db[i]
            /\ \A j, k \in 1..Len(res) : res[j].id = res[k].id => j = k
            /\ \A i \in 1..Len(db) :
                  /\ (db[i].user_id = last.user_id /\ db[i].created_date.day = last.now - 7)
                        => (\E j \in 1..Len(res) : res[j].id = db[i].id)
                  /\ (db[i].created_date.day = last.now - 8 \/ db[i].user_id # last.user_id)
                        => ~(\E j \in 1..Len(res) : res[j].id = db[i].id)

\* a query that returned a row dated exactly 7 days ago and left out a row of
\* the same user dated 8 days ago
C8_Witness ==
    /\ last.op = "get_meals_for_last_week"
    /\ last.exc = ""
    /\ last.ret.type = "list"
    /\ \E j \in 1..Len(last.ret.value) :
          last.ret.value[j].created_date.day = last.now - 7
    /\ \E i \in 1..Len(db) :
          /\ db[i].user_id = last.user_id
          /\ db[i].created_date.day = last.now - 8

-----------------------------------------------------------------------------
(* The aggregator applied to any short list of meals *)

AggCalories == {0, 1, 2}
AggDays == (FirstDay - 8)..(FirstDay + 1)
AggMeals == {Meal("u1", "apple", c, datetime(d)) : c \in AggCalories, d \in AggDays}
AggLists == UNION {[1..n -> AggMeals] : n \in 0..MaxLen}

AggInit ==
    /\ today = FirstDay
    /\ db \in AggLists
    /\ sessions = <<>>
    /\ ops = 0
    /\ last = [op |-> "init"]

Aggregate ==
    /\ ops = 0
    /\ LET r == calculate_past_data(db, today)
       IN  last' = [op |-> "calculate_past_data", meals |-> db, now |-> today,
                    exc |-> r.exc, ret |-> r.ret]
    /\ ops' = 1
    /\ UNCHANGED <<today, db, sessions>>

AggNext == Aggregate \/ Tick

SpecAgg == AggInit /\ [][AggNext]_vars

\* the indices of the meals dated on day d
DatedOn(meals, d) == {i \in 1..Len(meals) : meals[i].created_date.day = d}

RECURSIVE TotalCalories(_, _)
TotalCalories(meals, I) ==
    IF I = {} THEN 0
    ELSE LET i == CHOOSE x \in I : TRUE
         IN  meals[i].calories + TotalCalories(meals, I \ {i})

\* C7: calculate_past_data returns exactly 7 slots; slot i (0..6) is the sum
\* of the calories of exactly the meals dated today - i, given as None ("no
\* data") when that sum is 0 and as the sum otherwise; meals dated on any
\* other day are in no slot.
C7_SevenSlotsOfDailySums ==
    (last.op = "calculate_past_data") =>
        /\ last.exc = ""
        /\ DOMAIN last.ret = 1..7
        /\ \A i \in 0..6 :
              LET total == TotalCalories(last.meals, DatedOn(last.meals, last.now - i))
              IN  IF total = 0
                  THEN last.ret[i + 1] = None
                  ELSE last.ret[i + 1] = NutritionInfo(total)

\* two meals of today summed in slot 0, and nothing else in any slot
C7_Witness ==
    /\ last.op = "calculate_past_data"
    /\ Len(last.meals) = 2
    /\ last.meals[1].calories = 2
    /\ last.meals[2].calories = 1
    /\ last.ret[1] = NutritionInfo(3)
    /\ \A k \in 2..7 : last.ret[k] = None

\* a meal of today with 0 calories and a meal dated 7 days ago: every slot is None
C7_WitnessNoData ==
    /\ last.op = "calculate_past_data"
    /\ Len(last.meals) = 2
    /\ last.meals[1].calories = 0
    /\ last.meals[1].created_date.day = last.now
    /\ last.meals[2].calories = 2
    /\ last.meals[2].created_date.day = last.now - 7
    /\ \A k \in 1..7 : last.ret[k] = None

-----------------------------------------------------------------------------
(* The handler methods called, and HTTP requests served *)

Paths == {MealsPath, StatsPath, StatsPath \o <<"foo">>}
ReqUsers == {"", "u1"}
ReqDescriptions == {"", "apple"}
ReqDates == {IsoStr(FirstDay - 7), IsoStr(FirstDay + 1), Garbage}
Estimates == {0, 2}
Keys == {"user_id", "description", "created_date"}

\* the JSON objects of a request body
MealInfos ==
    {[k \in K |-> CASE k = "user_id" -> u
                    [] k = "description" -> d
                    [] OTHER -> c] :
        K \in SUBSET Keys, u \in ReqUsers, d \in ReqDescriptions, c \in ReqDates}

\* the parsed query strings of a stats request
Queries == {[k \in K |-> u] : K \in SUBSET {"user_id"}, u \in ReqUsers}

Raises(msg) == [exc |-> msg, ret |-> None]
Returns(value) == [exc |-> "", ret |-> value]

NutritionOutcomes ==
    {Raises("unrecognized meal")} \cup {Returns(NutritionInfo(c)) : c \in Estimates}

\* the sets of failing session steps an insert can meet: a failing factory
\* ends the call, add and commit do not both fail, rollback is reached only
\* after one of them failed
Faults ==
    {F \in SUBSET (Steps \ {"query"}) :
        /\ ("acquire" \in F => F = {"acquire"})
        /\ ~({"add", "commit"} \subseteq F)
        /\ ("rollback" \in F => F \cap {"add", "commit"} # {})}

\* the sets of failing session steps a query can meet: a failing factory
\* ends the call, a failing query is caught and close() is still reached
StatsFaults ==
    {F \in SUBSET {"acquire", "query", "close"} :
        "acquire" \in F => F = {"acquire"}}

Request(op, path, input, r, F, extra) ==
    [op |-> op, path |-> path, input |-> input, now |-> today, faults |-> F,
     resp |-> r.resp, exc |-> r.exc, calls |-> r.calls, before |-> db] @@ extra

\* the request lines: the command as written, and the path
Commands == {"post", "get", "POST", "GET", "HEAD"}

\* an HTTP request served by the handler class of lib/server.py; last.op is
\* the method that ran
Serve ==
    /\ ops < MaxRequests
    /\ \E command \in Commands, path \in Paths :
        \* what the request never reads is fixed
        LET posts == command = "post" /\ path = MealsPath
            stats == command = "get" /\ startswith(path, StatsPath)
            static == command \in {"GET", "HEAD"}
        IN  \E meal_info \in (IF posts THEN MealInfos ELSE {<<>>}),
               query \in (IF stats THEN Queries ELSE {<<>>}),
               nutrition \in (IF posts THEN NutritionOutcomes
                              ELSE {Raises("unrecognized meal")}),
               F \in (IF posts THEN Faults ELSE IF stats THEN StatsFaults ELSE {{}}),
               entry \in (IF static THEN {"none", "file", "directory"} ELSE {"none"}) :
            \E not_modified \in (IF entry = "file" THEN BOOLEAN ELSE {FALSE}) :
            LET req == [command |-> command, path |-> path,
                        body |-> meal_info, query |-> query]
                r == handle_one_request(db, sessions, req, today, nutrition, F,
                                        entry, not_modified)
            IN  /\ (Len(r.calls) = 0 => nutrition = Raises("unrecognized meal"))
                /\ (posts /\ Len(r.calls) < 2 => F = {})
                /\ db' = r.store
                /\ sessions' = r.log
                /\ last' = Request(IF r.method = "" THEN "handle_one_request"
                                   ELSE r.method,
                                   path,
                                   IF command = "get" THEN query ELSE meal_info,
                                   r, F,
                                   [command |-> command, nutrition |-> nutrition,
                                    entry |-> entry, not_modified |-> not_modified])
    /\ ops' = ops + 1
    /\ UNCHANGED today

\* a POST served by the handler class of server.py (it defines do_POST)
LegacyPost ==
    /\ ops < MaxRequests
    /\ \E path \in Paths, info \in MealInfos,
          nutrition \in NutritionOutcomes, F \in Faults :
        LET r == do_POST(db, sessions, path, info, today, nutrition, F)
        IN  /\ (path # MealsPath => DOMAIN info = {})
            /\ ~Has(info, "created_date")
            /\ (Len(r.calls) = 0 => nutrition = Raises("unrecognized meal"))
            /\ (nutrition.exc # "" => F = {})
            /\ db' = r.store
            /\ sessions' = r.log
            /\ last' = Request("do_POST", path, info, r, F, [nutrition |-> nutrition])
    /\ ops' = ops + 1
    /\ UNCHANGED today

Next == Serve \/ LegacyPost \/ Tick

Spec == Init /\ [][Next]_vars

-----------------------------------------------------------------------------
(* Claims about the handlers, checked under Spec *)

Called(name) == \E i \in 1..Len(last.calls) : last.calls[i] = name
TimesCalled(name) == Cardinality({i \in 1..Len(last.calls) : last.calls[i] = name})

\* the outcome kinds of the response contract
InvalidRequest ==
    /\ last.exc = "" /\ last.resp # None
    /\ last.resp.status = BAD_REQUEST
    /\ last.resp.body.value.error \in
          {"Invalid request, missing user_id or description", "Missing user_id parameter"}
EstimationError ==
    /\ last.exc = "" /\ last.resp # None
    /\ last.resp.status = BAD_REQUEST
    /\ last.resp.body.value.error = "Server did not recognize the request."
\* the stats handler wraps the repository's failure result in {"error": ...}
DatabaseErrorOutcome ==
    /\ last.exc = "" /\ last.resp # None
    /\ last.resp.status = INTERNAL_SERVER_ERROR
    /\ IF last.op = "do_get"
       THEN ~Called("get_recommendations") /\ IsDatabaseError(last.resp.body.value.error)
       ELSE last.resp.body.value.error = "Database error"
NoData ==
    /\ last.exc = "" /\ last.resp = Response(NOT_FOUND, None)

InsertRequest == last.op \in {"do_post", "do_POST"} /\ last.path = MealsPath
PassesValidation == Has(last.input, "user_id") /\ Has(last.input, "description")

\* C4: in the insert flow, when the estimation provider fails, insert_meal is
\* not called, no meal is stored, the provider is called once only, and the
\* request ends with the EstimationError outcome.
C4_EstimationFailureStoresNothing ==
    (InsertRequest /\ PassesValidation /\ Called("get_nutrition")
        /\ last.nutrition.exc # "") =>
        /\ ~Called("insert_meal")
        /\ db = last.before
        /\ TimesCalled("get_nutrition") = 1
        /\ EstimationError

\* C5: an insert request whose user_id or description is missing or is the
\* empty string fails with InvalidRequest, calls neither the estimation
\* provider nor insert_meal, and leaves the stored meals unchanged.
C5_MissingOrEmptyFieldIsInvalid ==
    (last.op = "do_post" /\ last.path = MealsPath
        /\ \/ ~Has(last.input, "user_id") \/ ~Has(last.input, "description")
           \/ last.input["user_id"] = "" \/ last.input["description"] = "") =>
        /\ InvalidRequest
        /\ last.calls = <<>>
        /\ db = last.before

\* the created_date the insert flow is to store: the caller's when present
\* and parseable, the server's current date otherwise
ResolvedDay(meal_info, now) ==
    IF Has(meal_info, "created_date") /\ meal_info["created_date"].iso
    THEN meal_info["created_date"].day
    ELSE now

\* C6: an insert request that passes validation and whose estimation and
\* store calls succeed adds exactly one meal, with the request's user_id and
\* description, the provider's estimate as calories, and as created_date the
\* caller's date when present and parseable and the server's current date
\* otherwise; the response carries the estimate.
C6_ValidInsertStoresOneMeal ==
    (last.op = "do_post" /\ last.path = MealsPath /\ PassesValidation
        /\ last.nutrition.exc = "" /\ Called("insert_meal")
        /\ last.exc = "" /\ last.resp.status = OK) =>
        /\ Len(db) = Len(last.before) + 1
        /\ SubSeq(db, 1, Len(last.before)) = last.before
        /\ db[Len(db)].user_id = last.input["user_id"]
        /\ db[Len(db)].description = last.input["description"]
        /\ db[Len(db)].calories = last.nutrition.ret.calories
        /\ DayOf(db[Len(db)].created_date) = ResolvedDay(last.input, last.now)
        /\ last.resp.body = PyDict([calories |-> last.nutrition.ret.calories])

StatsRequest ==
    /\ last.op = "do_get" /\ startswith(last.path, StatsPath)
    /\ Has(last.input, "user_id") /\ last.input["user_id"] # ""

\* the stored meals of the requesting user dated from today - 7 days onward
InWindow(row) ==
    /\ row.user_id = last.input["user_id"]
    /\ DayOf(row.created_date) # -1
    /\ DayOf(row.created_date) >= last.now - 7

\* C9: a stats request of a user with no stored meal in the queried window
\* ends with NoData and does not invoke the recommendation provider; a store
\* failure for such a request ends with DatabaseError instead, the
\* recommendation provider again not invoked.
C9_NoDataAndStoreFailure ==
    StatsRequest =>
        /\ (last.faults # {}) => (DatabaseErrorOutcome /\ ~Called("get_recommendations"))
        /\ (last.faults = {} /\ ~(\E i \in 1..Len(last.before) : InWindow(last.before[i])))
               => (NoData /\ ~InvalidRequest /\ ~DatabaseErrorOutcome
                   /\ ~Called("get_recommendations"))

-----------------------------------------------------------------------------
(* calculate_past_data called with the list a query returned: the store is *)
(* any short list of committed meals, a single query is made (one          *)
(* operation is left), and the list it returned is handed to               *)
(* calculate_past_data, the clock read again                               *)

WeekCalories == {0, 2}
WeekRows ==
    {Meal(u, "apple", c, datetime(d)) :
        u \in StoreUsers, c \in WeekCalories, d \in StoreDays}

WeekInit ==
    /\ today = FirstDay
    /\ db \in {Flush(<<>>, rows) : rows \in UNION {[1..n -> WeekRows] : n \in 0..MaxLen}}
    /\ sessions = <<>>
    /\ ops = MaxOps - 1
    /\ last = [op |-> "init"]

PastDataCall ==
    /\ last.op = "get_meals_for_last_week"
    /\ last.exc = ""
    /\ last.ret.type = "list"
    /\ LET r == calculate_past_data(last.ret.value, today)
       IN  last' = [op |-> "calculate_past_data", user_id |-> last.user_id,
                    meals |-> last.ret.value, queried |-> last.now, now |-> today,
                    exc |-> r.exc, ret |-> r.ret]
    /\ UNCHANGED <<today, db, sessions, ops>>

WeekNext == GetMealsCall \/ PastDataCall \/ Tick

SpecWeek == WeekInit /\ [][WeekNext]_vars

\* the rows of the user the query was made for that are dated on day d
RowsOn(d) ==
    {i \in 1..Len(db) : db[i].user_id = last.user_id /\ DayOf(db[i].created_date) = d}

C10_WitnessSum ==
    /\ last.op = "calculate_past_data"
    /\ Len(last.meals) = 2
    /\ last.ret[1] = NutritionInfo(4)

====
